---- MODULE Spec2Model ----
(***************************************************************************)
(* tomopy pre-processing (src/tomopy/prep.py): the corrections that run    *)
(* over a shared 3D volume through mp.distribute_jobs, one worker call per *)
(* index range of the distribution axis.                                   *)
(*                                                                         *)
(* Conventions                                                             *)
(*  - a 2D array is a sequence of rows, a row a sequence of values; the    *)
(*    code's 0-based index i is the model's index i + 1;                   *)
(*  - the volume is held as the sequence of its slices along the           *)
(*    distribution axis of the running correction (tomo[m, :, :] for the   *)
(*    axis-0 corrections, tomo[:, m, :] for the axis-1 corrections);       *)
(*  - an exact number is a fraction <<n, d>> with d > 0 in lowest terms    *)
(*    (d = 0 for inf and nan in the ring removal);                         *)
(*  - Python's None is the empty sequence, a given value v is <<v>>.       *)
(***************************************************************************)
EXTENDS Integers, Sequences, FiniteSets, TLC

VARIABLES
    op,       \* the correction that was called
    shape,    \* tomo.shape: <<dx, dy, dz>>
    tomo0,    \* the volume as it was when the correction was called
    tomo,     \* mp.SHARED_ARRAY: the slices along the distribution axis
    inp,      \* the arguments of the call
    args,     \* the args tuple handed to every worker call
    phase,    \* "called" -> "running" -> "done" or "failed"
    ranges,   \* the <<istart, iend>> pairs handed out by distribute_jobs
    pc,       \* per worker call: "start", "load", "store", "done", "failed"
    idx,      \* per worker call: the loop variable m
    loc,      \* per worker call: its local variables
    acc       \* the volume accesses made so far: <<worker, "r" | "w", index>>

vars == <<op, shape, tomo0, tomo, inp, args, phase, ranges, pc, idx, loc, acc>>

(***************************************************************************)
(* Bounds of the model.                                                    *)
(***************************************************************************)
\* largest extent of the distribution axis
MaxAxis == 3
\* mp.cpu_count() of the machine the model runs on
NCpu == 2

(***************************************************************************)
(* Exact arithmetic.                                                       *)
(***************************************************************************)
Abs(n) == IF n < 0 THEN 0 - n ELSE n

Min2(a, b) == IF a <= b THEN a ELSE b

Max2(a, b) == IF a >= b THEN a ELSE b

RECURSIVE Gcd(_, _)
Gcd(a, b) == IF b = 0 THEN a ELSE Gcd(b, a % b)

Frac(n, d) ==
    LET s == IF d < 0 THEN 0 - 1 ELSE 1
        g == Gcd(Abs(n), Abs(d))
    IN  <<(s * n) \div g, (s * d) \div g>>

FInt(n) == <<n, 1>>

FSub(a, b) == Frac(a[1] * b[2] - b[1] * a[2], a[2] * b[2])

FDiv(a, b) == Frac(a[1] * b[2], a[2] * b[1])

FGt(a, b) == a[1] * b[2] > b[1] * a[2]

FIsZero(a) == a[1] = 0

RECURSIVE SeqSum(_)
SeqSum(s) == IF s = <<>> THEN 0 ELSE Head(s) + SeqSum(Tail(s))

\* the 2D arrays with the given extents over a set of values
Mats(rows, cols, vals) == [1..rows -> [1..cols -> vals]]

Rows(a) == Len(a)

Cols(a) == IF Len(a) = 0 THEN 0 ELSE Len(a[1])

(***************************************************************************)
(* mp.distribute_jobs: the index ranges of the distribution axis.          *)
(***************************************************************************)
\* the number of workers: the requested count, or the hardware parallelism,
\* clamped into [1, n]
DistCores(n, ncore) ==
    LET want == IF ncore = <<>> THEN NCpu ELSE ncore[1]
    IN  Max2(1, Min2(want, n))

\* the default ranges: n split evenly among k workers, the remainder going
\* one index each to the first ranges
EvenRanges(n, k) ==
    LET q == n \div k
        r == n % k
        start(i) == (i - 1) * q + Min2(i - 1, r)
    IN  [i \in 1..k |-> <<start(i), start(i + 1)>>]

\* ranges of a requested chunk size whose last range is not cut at n
ChunkRangesUncut(n, nchunk) ==
    LET c == Max2(1, Min2(nchunk, n))
        k == (n + c - 1) \div c
    IN  [i \in 1..k |-> <<(i - 1) * c, i * c>>]

\* the ranges of a requested chunk size, clamped into [1, n]
ChunkRanges(n, nchunk) ==
    LET c == Max2(1, Min2(nchunk, n))
        k == (n + c - 1) \div c
    IN  [i \in 1..k |-> <<(i - 1) * c, Min2(i * c, n)>>]

DistRanges(n, ncore, nchunk) ==
    IF nchunk = <<>>
    THEN EvenRanges(n, DistCores(n, ncore))
    ELSE ChunkRanges(n, nchunk[1])

\* the requests a caller can make: unspecified, zero, small, larger than n
CoreRequests == {<<>>} \cup {<<k>> : k \in {0, 2, MaxAxis + 1}}

ChunkRequests == {<<>>} \cup {<<k>> : k \in {0, 1, 2, MaxAxis + 1}}

\* a loop that runs from istart to the end of the axis
WorkerRangeToEnd(w) == ranges[w][1] .. (ranges[Len(ranges)][2] - 1)

\* the loop "for m in range(istart, iend)" of a worker call
WorkerRange(w) == ranges[w][1] .. (ranges[w][2] - 1)

Workers == DOMAIN ranges

\* distribute_jobs hands the volume out: one worker call per range
Distribute(n, a) ==
    /\ ranges' = DistRanges(n, inp.ncore, inp.nchunk)
    /\ args' = a
    /\ phase' = "running"
    /\ pc' = [w \in DOMAIN ranges' |-> "start"]
    /\ idx' = [w \in DOMAIN ranges' |-> ranges'[w][1]]
    /\ loc' = [w \in DOMAIN ranges' |-> <<>>]

\* distribute_jobs returns once every worker call has returned
Collect ==
    /\ phase = "running"
    /\ \A w \in Workers : pc[w] = "done"
    /\ phase' = "done"
    /\ UNCHANGED <<op, shape, tomo0, tomo, inp, args, ranges, pc, idx, loc, acc>>

\* distribute_jobs hands a worker's exception on to the caller
CollectFailure ==
    /\ phase = "running"
    /\ \A w \in Workers : pc[w] \in {"done", "failed"}
    /\ \E w \in Workers : pc[w] = "failed"
    /\ phase' = "failed"
    /\ UNCHANGED <<op, shape, tomo0, tomo, inp, args, ranges, pc, idx, loc, acc>>

\* the end of one loop iteration of worker w: m advances or the call returns
Advance(w) ==
    /\ idx' = [idx EXCEPT ![w] = idx[w] + 1]
    /\ pc' = [pc EXCEPT ![w] =
                 IF idx[w] + 1 \in WorkerRange(w) THEN "load" ELSE "done"]

\* the first statement after a worker's preamble: the loop is entered or not
Enter(w) ==
    pc' = [pc EXCEPT ![w] = IF idx[w] \in WorkerRange(w) THEN "load" ELSE "done"]

(***************************************************************************)
(* normalize / _normalize                                                  *)
(***************************************************************************)
\* arr.mean(axis=0) of a stack of 2D frames
MeanAxis0(stack) ==
    [r \in 1..Rows(stack[1]) |->
        [c \in 1..Cols(stack[1]) |->
            Frac(SeqSum([k \in 1..Len(stack) |-> stack[k][r][c]]), Len(stack))]]

\* numpy's broadcasting rule for one axis: equal extents, or one of them 1
Compatible(n, k) == n = k \/ n = 1 \/ k = 1

\* two 2D arrays can be combined element by element
BroadcastOk(a, b) == Compatible(Rows(a), Rows(b)) /\ Compatible(Cols(a), Cols(b))

\* a 2D array stretched to rows x cols along its axes of extent 1
BroadcastTo(a, rows, cols) ==
    [r \in 1..rows |->
        [c \in 1..cols |->
            a[IF Rows(a) = 1 THEN 1 ELSE r][IF Cols(a) = 1 THEN 1 ELSE c]]]

\* a wrong epsilon: 1e-3
EpsMilli == Frac(1, 1000)

\* 1e-6
Eps == Frac(1, 1000000)

\* denom = flat - dark; denom[denom == 0] = 1e-6
Denom(flat, dark) ==
    [r \in 1..Rows(flat) |->
        [c \in 1..Cols(flat) |->
            LET d == FSub(flat[r][c], dark[r][c])
            IN  IF FIsZero(d) THEN Eps ELSE d]]

\* a two-sided clamp: values below zero are raised to zero as well
CutoffTwoSided(v, cutoff) ==
    IF cutoff = <<>> THEN v
    ELSE IF FGt(v, cutoff[1]) THEN cutoff[1]
    ELSE IF v[1] < 0 THEN FInt(0)
    ELSE v

\* proj[proj > cutoff] = cutoff, when cutoff is not None
Cutoff(v, cutoff) ==
    IF cutoff # <<>> /\ FGt(v, cutoff[1]) THEN cutoff[1] ELSE v

\* proj = np.divide(tomo[m, :, :] - dark, denom), then the cutoff
NormalizeProj(proj, dark, denom, cutoff) ==
    [r \in 1..Rows(proj) |->
        [c \in 1..Cols(proj) |->
            Cutoff(FDiv(FSub(proj[r][c], dark[r][c]), denom[r][c]), cutoff)]]

NormTomoVals == {FInt(0), FInt(2)}

NormFlatVals == {1, 4}

NormDarkVals == {0, 1}

NormCutoffs == {<<>>, <<FInt(0)>>, <<FInt(1)>>}

\* the frames of the flat stack
NFlat == 2

\* the pixels of a volume in the normalize runs
NormPixels == 2

\* the columns of a reference frame that does not fit the projections
NormOdd == 3

\* the pixel values of a frame of fz columns: a frame that does not fit the
\* projections is uniform
NormFrameVals(fz, vals) ==
    IF fz = NormOdd THEN {CHOOSE v \in vals : \A u \in vals : u <= v} ELSE vals

InitNormalize ==
    /\ op = "normalize"
    /\ \E dx \in 1..NormPixels, dz \in 1..NormPixels :
        /\ dx * dz <= NormPixels
        /\ shape = <<dx, 1, dz>>
        /\ tomo \in [0..(dx - 1) -> Mats(1, dz, NormTomoVals)]
    /\ tomo0 = tomo
    /\ \E fz \in {shape[3], NormOdd}, kz \in {shape[3], NormOdd} :
       \E flat \in [1..NFlat -> Mats(1, fz, NormFrameVals(fz, NormFlatVals))],
          dark \in [1..1 -> Mats(1, kz, NormFrameVals(kz, NormDarkVals))],
          cutoff \in NormCutoffs,
          nc \in {<<>>, <<0>>} :
            inp = [flat |-> flat, dark |-> dark, cutoff |-> cutoff,
                   ncore |-> nc, nchunk |-> <<>>]
    /\ args = <<>>
    /\ phase = "called"
    /\ ranges = <<>>
    /\ pc = <<>>
    /\ idx = <<>>
    /\ loc = <<>>
    /\ acc = {}

\* normalize: the mean fields, then distribute_jobs along axis 0
Normalize ==
    /\ op = "normalize"
    /\ phase = "called"
    /\ Distribute(shape[1], [flat |-> MeanAxis0(inp.flat),
                             dark |-> MeanAxis0(inp.dark),
                             cutoff |-> inp.cutoff])
    /\ UNCHANGED <<op, shape, tomo0, tomo, inp, acc>>

\* _normalize, lines 284-285: the denominator; flat - dark raises when the
\* mean fields do not broadcast
NormalizeStart(w) ==
    /\ op = "normalize"
    /\ phase = "running"
    /\ pc[w] = "start"
    /\ IF BroadcastOk(args.flat, args.dark)
       THEN /\ LET rows == Max2(Rows(args.flat), Rows(args.dark))
                   cols == Max2(Cols(args.flat), Cols(args.dark))
               IN  loc' = [loc EXCEPT ![w] =
                              [denom |-> Denom(BroadcastTo(args.flat, rows, cols),
                                               BroadcastTo(args.dark, rows, cols))]]
            /\ Enter(w)
       ELSE /\ pc' = [pc EXCEPT ![w] = "failed"]
            /\ loc' = loc
    /\ UNCHANGED <<op, shape, tomo0, tomo, inp, args, phase, ranges, idx, acc>>

\* _normalize, lines 288-290: proj from tomo[m, :, :]; the subtraction and
\* the division raise when their operands do not broadcast
NormalizeLoad(w) ==
    /\ op = "normalize"
    /\ phase = "running"
    /\ pc[w] = "load"
    /\ acc' = acc \cup {<<w, "r", idx[w]>>}
    /\ IF /\ BroadcastOk(tomo[idx[w]], args.dark)
          /\ Compatible(Max2(Rows(tomo[idx[w]]), Rows(args.dark)), Rows(loc[w].denom))
          /\ Compatible(Max2(Cols(tomo[idx[w]]), Cols(args.dark)), Cols(loc[w].denom))
       THEN /\ LET rows == Max2(Rows(tomo[idx[w]]), Rows(loc[w].denom))
                   cols == Max2(Cols(tomo[idx[w]]), Cols(loc[w].denom))
               IN  loc' = [loc EXCEPT ![w] =
                              [denom |-> loc[w].denom,
                               proj |-> NormalizeProj(
                                            BroadcastTo(tomo[idx[w]], rows, cols),
                                            BroadcastTo(args.dark, rows, cols),
                                            BroadcastTo(loc[w].denom, rows, cols),
                                            args.cutoff)]]
            /\ pc' = [pc EXCEPT ![w] = "store"]
       ELSE /\ pc' = [pc EXCEPT ![w] = "failed"]
            /\ loc' = loc
    /\ UNCHANGED <<op, shape, tomo0, tomo, inp, args, phase, ranges, idx>>

\* _normalize, line 291: tomo[m, :, :] = proj; the assignment raises when
\* proj does not broadcast to the projection
NormalizeStore(w) ==
    /\ op = "normalize"
    /\ phase = "running"
    /\ pc[w] = "store"
    /\ IF /\ Rows(loc[w].proj) \in {1, Rows(tomo[idx[w]])}
          /\ Cols(loc[w].proj) \in {1, Cols(tomo[idx[w]])}
       THEN /\ tomo' = [tomo EXCEPT ![idx[w]] =
                            BroadcastTo(loc[w].proj, Rows(tomo[idx[w]]),
                                        Cols(tomo[idx[w]]))]
            /\ acc' = acc \cup {<<w, "w", idx[w]>>}
            /\ Advance(w)
       ELSE /\ pc' = [pc EXCEPT ![w] = "failed"]
            /\ UNCHANGED <<tomo, acc, idx>>
    /\ UNCHANGED <<op, shape, tomo0, inp, args, phase, ranges, loc>>

NextNormalize ==
    \/ Normalize
    \/ \E w \in Workers : NormalizeStart(w)
    \/ \E w \in Workers : NormalizeLoad(w)
    \/ \E w \in Workers : NormalizeStore(w)
    \/ Collect
    \/ CollectFailure

SpecNormalize == InitNormalize /\ [][NextNormalize]_vars

(***************************************************************************)
(* remove_zinger / _remove_zinger                                          *)
(***************************************************************************)
\* scipy.ndimage's boundary mode "reflect" (d c b a | a b c d | d c b a):
\* the index of the sample that stands at position i of an axis of extent n
Reflect(i, n) ==
    LET j == i % (2 * n)
    IN  IF j < n THEN j ELSE 2 * n - 1 - j

\* the size x size window around pixel (r, c) (0-based), as a sequence
Window(a, r, c, size) ==
    [k \in 1..(size * size) |->
        a[Reflect(r - (size \div 2) + ((k - 1) \div size), Rows(a)) + 1]
         [Reflect(c - (size \div 2) + ((k - 1) % size), Cols(a)) + 1]]

\* the rank filter's median: the element of rank n // 2 of the sorted window,
\* the value with at most n // 2 elements below it and more than n // 2
\* elements not above it
Median(s) ==
    CHOOSE v \in {s[i] : i \in DOMAIN s} :
        /\ Cardinality({i \in DOMAIN s : s[i] < v}) <= Len(s) \div 2
        /\ Cardinality({i \in DOMAIN s : s[i] <= v}) > Len(s) \div 2

\* filters.median_filter(a, (size, size))
MedianFilter(a, size) ==
    [r \in 1..Rows(a) |->
        [c \in 1..Cols(a) |-> Median(Window(a, r - 1, c - 1, size))]]

\* a strict comparison in the mask
ZingerMaskStrict(a, tmp, dif) ==
    [r \in 1..Rows(a) |->
        [c \in 1..Cols(a) |-> IF a[r][c] - tmp[r][c] > dif THEN 1 ELSE 0]]

\* a mask on the magnitude of the difference
ZingerMaskAbs(a, tmp, dif) ==
    [r \in 1..Rows(a) |->
        [c \in 1..Cols(a) |-> IF Abs(a[r][c] - tmp[r][c]) >= dif THEN 1 ELSE 0]]

\* mask = ((tomo[m, :, :] - tmp) >= dif).astype(int)
ZingerMask(a, tmp, dif) ==
    [r \in 1..Rows(a) |->
        [c \in 1..Cols(a) |-> IF a[r][c] - tmp[r][c] >= dif THEN 1 ELSE 0]]

\* tmp * mask + tomo[m, :, :] * (1 - mask)
ZingerBlend(a, tmp, mask) ==
    [r \in 1..Rows(a) |->
        [c \in 1..Cols(a) |->
            tmp[r][c] * mask[r][c] + a[r][c] * (1 - mask[r][c])]]

\* the projections in the zinger runs
ZingDx == 2

\* the rows and columns of a projection in the zinger runs
ZingDy == 2

ZingDz == 3

\* the pixels of a volume in the zinger runs
ZingPixels == 6

\* the largest pixel value in the zinger runs
ZingMax == 2

ZingDifs == {1, 2}

ZingSizes == {3}

InitZinger ==
    /\ op = "remove_zinger"
    /\ \E dx \in 1..ZingDx, dy \in 1..ZingDy :
        /\ dx * dy * ZingDz <= ZingPixels
        /\ shape = <<dx, dy, ZingDz>>
        /\ tomo \in [0..(dx - 1) -> Mats(dy, ZingDz, 0..ZingMax)]
    /\ tomo0 = tomo
    /\ \E dif \in ZingDifs, size \in ZingSizes, nk \in {<<>>, <<2>>} :
            inp = [dif |-> dif, size |-> size, ncore |-> <<>>, nchunk |-> nk,
                   pass |-> 1, first |-> <<>>]
    /\ args = <<>>
    /\ phase = "called"
    /\ ranges = <<>>
    /\ pc = <<>>
    /\ idx = <<>>
    /\ loc = <<>>
    /\ acc = {}

\* remove_zinger: distribute_jobs along axis 0
RemoveZinger ==
    /\ op = "remove_zinger"
    /\ phase = "called"
    /\ Distribute(shape[1], [dif |-> inp.dif, size |-> inp.size])
    /\ UNCHANGED <<op, shape, tomo0, tomo, inp, acc>>

\* the caller applies remove_zinger, with the same parameters, to its result
RemoveZingerAgain ==
    /\ op = "remove_zinger"
    /\ phase = "done"
    /\ inp.pass = 1
    /\ inp' = [inp EXCEPT !.pass = 2, !.first = tomo]
    /\ phase' = "called"
    /\ ranges' = <<>>
    /\ pc' = <<>>
    /\ idx' = <<>>
    /\ loc' = <<>>
    /\ acc' = {}
    /\ UNCHANGED <<op, shape, tomo0, tomo, args>>

\* _remove_zinger, before its loop (the mask allocated here is never read)
ZingerStart(w) ==
    /\ op = "remove_zinger"
    /\ phase = "running"
    /\ pc[w] = "start"
    /\ Enter(w)
    /\ UNCHANGED <<op, shape, tomo0, tomo, inp, args, phase, ranges, idx, loc, acc>>

\* _remove_zinger, lines 564-565: tmp and mask from tomo[m, :, :]
ZingerLoad(w) ==
    /\ op = "remove_zinger"
    /\ phase = "running"
    /\ pc[w] = "load"
    /\ LET tmp == MedianFilter(tomo[idx[w]], args.size)
       IN  loc' = [loc EXCEPT ![w] =
                      [tmp |-> tmp,
                       mask |-> ZingerMask(tomo[idx[w]], tmp, args.dif)]]
    /\ acc' = acc \cup {<<w, "r", idx[w]>>}
    /\ pc' = [pc EXCEPT ![w] = "store"]
    /\ UNCHANGED <<op, shape, tomo0, tomo, inp, args, phase, ranges, idx>>

\* _remove_zinger, line 566: the blend is written over tomo[m, :, :]
ZingerStore(w) ==
    /\ op = "remove_zinger"
    /\ phase = "running"
    /\ pc[w] = "store"
    /\ tomo' = [tomo EXCEPT ![idx[w]] =
                    ZingerBlend(tomo[idx[w]], loc[w].tmp, loc[w].mask)]
    /\ acc' = acc \cup {<<w, "r", idx[w]>>, <<w, "w", idx[w]>>}
    /\ Advance(w)
    /\ UNCHANGED <<op, shape, tomo0, inp, args, phase, ranges, loc>>

NextZinger ==
    \/ RemoveZinger
    \/ RemoveZingerAgain
    \/ \E w \in Workers : ZingerStart(w)
    \/ \E w \in Workers : ZingerLoad(w)
    \/ \E w \in Workers : ZingerStore(w)
    \/ Collect

SpecZinger == InitZinger /\ [][NextZinger]_vars

(***************************************************************************)
(* retrieve_phase / _paganin_filter / _retrieve_phase                      *)
(*                                                                         *)
(* The physical parameters enter through coef = wavelen * dist /           *)
(* (16 * PI * psize^2), a fraction: padpix = ceil(PI * wavelen * dist /    *)
(* psize^2) = ceil(16 * PI^2 * coef), and with the sampling indices in     *)
(* units of 1 / (2 * (n - 1) * psize) the filter is                        *)
(* H = 1 / (coef * (a^2 / (nx-1)^2 + b^2 / (ny-1)^2) + alpha).             *)
(* The Fourier transforms are not computed: a filtered projection is the   *)
(* term <<"paganin", inside, outside>> of what the transformed buffer held *)
(* inside and outside the embedding window.                                *)
(***************************************************************************)
CeilDiv(a, b) == (a + b - 1) \div b

\* pow(2, np.ceil(np.log2(n))): the smallest power of two >= n
RECURSIVE Pow2From(_, _)
Pow2From(p, n) == IF p >= n THEN p ELSE Pow2From(2 * p, n)

NextPow2(n) == Pow2From(1, n)

\* np.ceil(PI * wavelen * dist / psize ** 2), with 16 * PI^2 = 157.9137
PadPix(coef) == CeilDiv(1579137 * coef[1], 10000 * coef[2])

\* nx, ny: the extents of the filter and of the padded buffer
PaganinExtent(d, coef, pad) == IF pad THEN NextPow2(d + PadPix(coef)) ELSE d

\* a wrong shift: half the buffer, the detector extent forgotten
PaganinShiftHalf(n, d) == n \div 2

\* xshift, yshift = int((nx - dy) / 2.), int((ny - dz) / 2.)
PaganinShift(n, d) == (n - d) \div 2

\* np.arange(-(n - 1) * 0.5, n * 0.5) in units of one half: the
\* ceil(n - 1/2) = n values -(n - 1), -(n - 1) + 2, ..., n - 1
HalfIndex(n) == [k \in 1..n |-> 2 * (k - 1) - (n - 1)]

\* np.fft.fftshift along both axes: element i moves to (i + n // 2) % n
FftShift(a) ==
    [i \in 1..Rows(a) |->
        [j \in 1..Cols(a) |->
            a[((i - 1 + Rows(a) - (Rows(a) \div 2)) % Rows(a)) + 1]
             [((j - 1 + Cols(a) - (Cols(a) \div 2)) % Cols(a)) + 1]]]

\* w2 = du^2 + dv^2, du[i, j] = indy[j], dv[i, j] = indx[i], times
\* 4 * psize^2 * (nx - 1)^2 * (ny - 1)^2
W2Scaled(nx, ny) ==
    [i \in 1..nx |->
        [j \in 1..ny |->
            HalfIndex(ny)[j] * HalfIndex(ny)[j] * (nx - 1) * (nx - 1)
          + HalfIndex(nx)[i] * HalfIndex(nx)[i] * (ny - 1) * (ny - 1)]]

\* H = 1 / (wavelen * dist * w2 / (4 * PI) + alpha), before the shift
PaganinH(nx, ny, coef, alpha) ==
    LET s == (nx - 1) * (nx - 1) * (ny - 1) * (ny - 1)
        w == W2Scaled(nx, ny)
    IN  [i \in 1..nx |->
            [j \in 1..ny |->
                Frac(coef[2] * s * alpha[2],
                     coef[1] * w[i][j] * alpha[2] + alpha[1] * coef[2] * s)]]

\* 1 / ((nx - 1) * psize) with a Python integer nx = 1: ZeroDivisionError
PaganinRaises(nx, ny, pad) == ~pad /\ (nx = 1 \/ ny = 1)

\* _paganin_filter: H, xshift, yshift and the template buffer prj
PaganinFilter(dy, dz, coef, alpha, pad) ==
    LET nx == PaganinExtent(dy, coef, pad)
        ny == PaganinExtent(dz, coef, pad)
    IN  [H |-> FftShift(PaganinH(nx, ny, coef, alpha)),
         xshift |-> IF pad THEN <<PaganinShift(nx, dy)>> ELSE <<>>,
         yshift |-> IF pad THEN <<PaganinShift(ny, dz)>> ELSE <<>>,
         prj |-> [rows |-> IF pad THEN nx ELSE dy,
                  cols |-> IF pad THEN ny ELSE dz,
                  inside |-> IF pad THEN "val" ELSE "one",
                  outside |-> IF pad THEN "val" ELSE "one"],
         pad |-> pad]

\* the detector rows and columns in the phase retrieval runs
PhaseDet == 3

PhaseCoefs == {<<1, 200>>, <<1, 100>>}

PhaseAlphas == {<<1, 2>>}

\* a volume not yet corrected: slice m of the distribution axis
RawVolume(n) == [m \in 0..(n - 1) |-> <<"raw", m>>]

InitPhase ==
    /\ op = "retrieve_phase"
    /\ \E dx \in 1..MaxAxis, dy \in 1..PhaseDet, dz \in 1..PhaseDet :
        /\ shape = <<dx, dy, dz>>
        /\ tomo = RawVolume(dx)
    /\ tomo0 = tomo
    /\ \E coef \in PhaseCoefs, alpha \in PhaseAlphas, pad \in BOOLEAN,
          nc \in CoreRequests, nk \in ChunkRequests :
            inp = [coef |-> coef, alpha |-> alpha, pad |-> pad,
                   ncore |-> nc, nchunk |-> nk]
    /\ args = <<>>
    /\ phase = "called"
    /\ ranges = <<>>
    /\ pc = <<>>
    /\ idx = <<>>
    /\ loc = <<>>
    /\ acc = {}

\* retrieve_phase: the filter, then distribute_jobs along axis 0; the filter
\* of an unpadded detector of extent 1 raises before anything is handed out
RetrievePhase ==
    /\ op = "retrieve_phase"
    /\ phase = "called"
    /\ IF PaganinRaises(shape[2], shape[3], inp.pad)
       THEN /\ phase' = "failed"
            /\ UNCHANGED <<args, ranges, pc, idx, loc>>
       ELSE Distribute(shape[1],
                PaganinFilter(shape[2], shape[3], inp.coef, inp.alpha, inp.pad))
    /\ UNCHANGED <<op, shape, tomo0, tomo, inp, acc>>

\* _retrieve_phase, before its loop: prj is the call's copy of the template
PhaseStart(w) ==
    /\ op = "retrieve_phase"
    /\ phase = "running"
    /\ pc[w] = "start"
    /\ loc' = [loc EXCEPT ![w] = [prj |-> args.prj]]
    /\ Enter(w)
    /\ UNCHANGED <<op, shape, tomo0, tomo, inp, args, phase, ranges, idx, acc>>

\* the buffer after prj[xshift:dy + xshift, yshift:dz + yshift] = proj
PhaseEmbed(prj, proj) == [prj EXCEPT !.inside = proj]

\* the index ranges [xshift, dy + xshift) x [yshift, dz + yshift)
PhaseWindow(xshift, yshift, dy, dz) ==
    [rows |-> <<xshift, dy + xshift>>, cols |-> <<yshift, dz + yshift>>]

\* the elementwise product of H and the transform of a buffer is defined
PhaseShapesAgree(H, rows, cols) == Rows(H) = rows /\ Cols(H) = cols

\* _retrieve_phase, lines 618-628: proj from tomo[m, :, :]
PhaseLoad(w) ==
    /\ op = "retrieve_phase"
    /\ phase = "running"
    /\ pc[w] = "load"
    /\ acc' = acc \cup {<<w, "r", idx[w]>>}
    /\ LET prj == IF args.pad THEN PhaseEmbed(loc[w].prj, tomo[idx[w]])
                  ELSE loc[w].prj
           ok == IF args.pad
                 THEN PhaseShapesAgree(args.H, prj.rows, prj.cols)
                 ELSE PhaseShapesAgree(args.H, shape[2], shape[3])
       IN  /\ loc' = [loc EXCEPT ![w] =
                         [prj |-> prj,
                          embed |-> IF args.pad
                                    THEN <<PhaseWindow(args.xshift[1], args.yshift[1],
                                                       shape[2], shape[3])>>
                                    ELSE <<>>,
                          crop |-> IF args.pad
                                   THEN <<PhaseWindow(args.xshift[1], args.yshift[1],
                                                      shape[2], shape[3])>>
                                   ELSE <<>>,
                          proj |-> IF args.pad
                                   THEN <<"paganin", prj.inside, prj.outside>>
                                   ELSE <<"paganin", tomo[idx[w]], "none">>]]
           /\ pc' = [pc EXCEPT ![w] = IF ok THEN "store" ELSE "failed"]
    /\ UNCHANGED <<op, shape, tomo0, tomo, inp, args, phase, ranges, idx>>

\* _retrieve_phase, line 629: tomo[m, :, :] = proj
PhaseStore(w) ==
    /\ op = "retrieve_phase"
    /\ phase = "running"
    /\ pc[w] = "store"
    /\ tomo' = [tomo EXCEPT ![idx[w]] = loc[w].proj]
    /\ acc' = acc \cup {<<w, "w", idx[w]>>}
    /\ Advance(w)
    /\ UNCHANGED <<op, shape, tomo0, inp, args, phase, ranges, loc>>

NextPhase ==
    \/ RetrievePhase
    \/ \E w \in Workers : PhaseStart(w)
    \/ \E w \in Workers : PhaseLoad(w)
    \/ \E w \in Workers : PhaseStore(w)
    \/ Collect

SpecPhase == InitPhase /\ [][NextPhase]_vars

(***************************************************************************)
(* remove_stripe1 / _remove_stripe1                                        *)
(*                                                                         *)
(* pywt and the Fourier damping are not computed: an array is followed by  *)
(* its extents and by a term that names what it was computed from.  The    *)
(* extents follow pywt: a decomposition with a filter of length flen turns *)
(* n samples into (n + flen - 1) // 2 coefficients, a reconstruction turns *)
(* k coefficients into 2 * k - flen + 2 samples.  A float extent           *)
(* (dx + dx / 8) is truncated, as numpy does when it accepts it.           *)
(***************************************************************************)
\* int(np.ceil(np.log2(n)))
RECURSIVE CeilLog2From(_, _, _)
CeilLog2From(k, p, n) == IF p >= n THEN k ELSE CeilLog2From(k + 1, 2 * p, n)

CeilLog2(n) == CeilLog2From(0, 1, n)

\* remove_stripe1, lines 323-325: the level count
StripeLevel(level, shp) ==
    IF level = <<>>
    THEN CeilLog2(Max2(shp[1], Max2(shp[2], shp[3])))
    ELSE level[1]

\* the extent of each band of pywt.dwt2 along an axis of n samples
DwtLen(n, flen) == (n + flen - 1) \div 2

\* the extent of pywt.idwt2 along an axis of k coefficients
IdwtLen(k, flen) == 2 * k - flen + 2

\* the extents of cH[0], ..., cH[level - 1] along an axis of n samples
RECURSIVE BandLens(_, _, _)
BandLens(n, flen, level) ==
    IF level = 0 THEN <<>>
    ELSE <<DwtLen(n, flen)>> \o BandLens(DwtLen(n, flen), flen, level - 1)

\* lines 374-376 along one axis: from the extent cur of the running
\* approximation, crop to cH[n] and reconstruct, for n = k - 1 down to 0;
\* 0 when a crop leaves fewer samples than cH[n] has (idwt2 would raise)
RECURSIVE ReconFrom(_, _, _, _)
ReconFrom(cur, bands, k, flen) ==
    IF k = 0 THEN cur
    ELSE IF cur < bands[k] THEN 0
    ELSE ReconFrom(IdwtLen(Min2(cur, bands[k]), flen), bands, k - 1, flen)

\* the extent of sli after lines 350-376 along an axis of n samples
ReconLen(n, flen, level) ==
    IF level = 0 THEN n
    ELSE ReconFrom(BandLens(n, flen, level)[level],
                   BandLens(n, flen, level), level, flen)

\* y_hat = (np.arange(-my, my, 2) + 1) / 2 in units of one half: the my
\* values -(my - 1), -(my - 1) + 2, ..., my - 1
StripeYHat(my) == [k \in 1..my |-> 2 * (k - 1) - (my - 1)]

\* np.fft.fftshift(np.fft.fft(cV[n], axis=0)): the frequency index of the
\* bin each row of fcV holds, the zero frequency in row my // 2
StripeBins(my) == [k \in 1..my |-> (k - 1) - (my \div 2)]

\* nx = dx, or dx + dx / 8 with pad, as an array extent
StripeNx(dx, pad) == IF pad THEN (8 * dx + dx) \div 8 ELSE dx

\* xshift = int((nx - dx) / 2.), nx = dx + dx / 8 not yet truncated
StripeShift(dx, pad) == IF pad THEN dx \div 16 ELSE 0

\* sli = np.zeros((nx, dz), dtype='float32')
StripeZeros(dx, dz, pad) ==
    [rows |-> StripeNx(dx, pad), cols |-> dz, body |-> <<"zeros">>]

\* sli[xshift:dx + xshift, :] = tomo[:, m, :] is defined: the dx x dz slice
\* has the extents of the target rows or broadcasts to them
StripeFits(sli, dx, dz) == dz = sli.cols \/ dz = 1

\* sli after sli[xshift:dx + xshift, :] = tomo[:, m, :]: the slice in the
\* window rows, and in the other rows, if there are any, what sli held
StripeEmbed(sli, slice, dx) ==
    [rows |-> sli.rows, cols |-> sli.cols,
     body |-> <<"embed", slice,
                IF sli.rows > dx THEN sli.body ELSE <<"none">> >>]

\* sli after the decomposition, the damping and the reconstruction
StripeFilter(sli, flen, level) ==
    [rows |-> ReconLen(sli.rows, flen, level),
     cols |-> ReconLen(sli.cols, flen, level),
     body |-> <<"fw", sli.body>>]

\* sli[xshift:dx + xshift, 0:dz]
StripeCrop(sli) == <<"crop", sli.body>>

StripeDxs == {2, 3, 8, 16}

StripeDzs == {1, 2, 3}

StripeLevels == {<<>>, <<1>>, <<2>>}

\* the filter lengths of the wavelets 'haar' and 'db5'
StripeFlens == {2, 10}

InitStripe1 ==
    /\ op = "remove_stripe1"
    /\ \E dx \in StripeDxs, dy \in 1..MaxAxis, dz \in StripeDzs :
        /\ shape = <<dx, dy, dz>>
        /\ tomo = RawVolume(dy)
    /\ tomo0 = tomo
    /\ \E level \in StripeLevels, flen \in StripeFlens, pad \in BOOLEAN,
          nc \in {<<>>, <<0>>}, nk \in {<<>>, <<2>>} :
            inp = [level |-> level, flen |-> flen, pad |-> pad,
                   ncore |-> nc, nchunk |-> nk]
    /\ args = <<>>
    /\ phase = "called"
    /\ ranges = <<>>
    /\ pc = <<>>
    /\ idx = <<>>
    /\ loc = <<>>
    /\ acc = {}

\* remove_stripe1: the level count, then distribute_jobs along axis 1
RemoveStripe1 ==
    /\ op = "remove_stripe1"
    /\ phase = "called"
    /\ Distribute(shape[2], [level |-> StripeLevel(inp.level, shape),
                             flen |-> inp.flen, pad |-> inp.pad])
    /\ UNCHANGED <<op, shape, tomo0, tomo, inp, acc>>

\* _remove_stripe1, lines 339-344: the buffer sli is allocated once
Stripe1Start(w) ==
    /\ op = "remove_stripe1"
    /\ phase = "running"
    /\ pc[w] = "start"
    /\ loc' = [loc EXCEPT ![w] =
                  [sli |-> StripeZeros(shape[1], shape[3], args.pad)]]
    /\ Enter(w)
    /\ UNCHANGED <<op, shape, tomo0, tomo, inp, args, phase, ranges, idx, acc>>

\* _remove_stripe1, lines 347-376: the slice is copied into sli, sli is
\* decomposed, damped and reconstructed; the copy raises when the extents
\* of sli no longer take the slice
Stripe1Load(w) ==
    /\ op = "remove_stripe1"
    /\ phase = "running"
    /\ pc[w] = "load"
    /\ acc' = acc \cup {<<w, "r", idx[w]>>}
    /\ IF StripeFits(loc[w].sli, shape[1], shape[3])
       THEN /\ loc' = [loc EXCEPT ![w] =
                          [sli |-> StripeFilter(
                                      StripeEmbed(loc[w].sli, tomo[idx[w]], shape[1]),
                                      args.flen, args.level)]]
            /\ pc' = [pc EXCEPT ![w] = "store"]
       ELSE /\ pc' = [pc EXCEPT ![w] = "failed"]
            /\ loc' = loc
    /\ UNCHANGED <<op, shape, tomo0, tomo, inp, args, phase, ranges, idx>>

\* _remove_stripe1, line 378: tomo[:, m, :] = sli[xshift:dx + xshift, 0:dz]
Stripe1Store(w) ==
    /\ op = "remove_stripe1"
    /\ phase = "running"
    /\ pc[w] = "store"
    /\ tomo' = [tomo EXCEPT ![idx[w]] = StripeCrop(loc[w].sli)]
    /\ acc' = acc \cup {<<w, "w", idx[w]>>}
    /\ Advance(w)
    /\ UNCHANGED <<op, shape, tomo0, inp, args, phase, ranges, loc>>

NextStripe1 ==
    \/ RemoveStripe1
    \/ \E w \in Workers : Stripe1Start(w)
    \/ \E w \in Workers : Stripe1Load(w)
    \/ \E w \in Workers : Stripe1Store(w)
    \/ Collect
    \/ CollectFailure

SpecStripe1 == InitStripe1 /\ [][NextStripe1]_vars

(***************************************************************************)
(* remove_stripe2 / _ring / _ringb / _ringCGM / _ringMatXvec / _kernel     *)
(*                                                                         *)
(* Floating-point values are followed exactly, as fractions <<n, d>> with  *)
(* d >= 0: <<1, 0>> is inf, <<-1, 0>> is -inf, <<0, 0>> is nan, and the    *)
(* operations are IEEE's on these (x / 0 is an infinity, 0 / 0 and         *)
(* inf * 0 are nan, every comparison with nan is false).  A slice written  *)
(* by the correction holds square roots: the model keeps the operand of    *)
(* np.sqrt, marked root.                                                   *)
(***************************************************************************)
\* an array built element by element, stored as a sequence
Arr(f) == SubSeq(f, 1, Len(f))

\* F(v), with v computed once
Bind(v, F(_)) == CHOOSE out \in {F(x) : x \in {v}} : TRUE

Sign(n) == IF n > 0 THEN 1 ELSE IF n < 0 THEN 0 - 1 ELSE 0

XNan == <<0, 0>>

XIsNan(a) == a[1] = 0 /\ a[2] = 0

XAdd(a, b) ==
    IF a[2] = 0 /\ b[2] = 0 THEN (IF a = b THEN a ELSE XNan)
    ELSE IF a[2] = 0 THEN a
    ELSE IF b[2] = 0 THEN b
    ELSE LET g == Gcd(a[2], b[2])
         IN  Frac(a[1] * (b[2] \div g) + b[1] * (a[2] \div g),
                  (a[2] \div g) * b[2])

XNeg(a) == <<0 - a[1], a[2]>>

XSub(a, b) == XAdd(a, XNeg(b))

XMul(a, b) ==
    IF a[2] = 0 \/ b[2] = 0 THEN <<Sign(a[1]) * Sign(b[1]), 0>>
    ELSE LET g == Gcd(Abs(a[1]), b[2])
             k == Gcd(Abs(b[1]), a[2])
         IN  Frac((a[1] \div g) * (b[1] \div k), (a[2] \div k) * (b[2] \div g))

XInv(a) ==
    IF a[2] = 0 THEN (IF a[1] = 0 THEN XNan ELSE <<0, 1>>)
    ELSE IF a[1] = 0 THEN <<1, 0>>
    ELSE Frac(a[2], a[1])

XDiv(a, b) == XMul(a, XInv(b))

XLt(a, b) ==
    LET g == Max2(1, Gcd(a[2], b[2]))
    IN  a[1] * (b[2] \div g) < b[1] * (a[2] \div g)

XAbs(a) == <<Abs(a[1]), a[2]>>

RECURSIVE XSum(_)
XSum(s) == IF s = <<>> THEN <<0, 1>> ELSE XAdd(Head(s), XSum(Tail(s)))

\* np.max / np.min of a sequence: nan if any element is nan
RECURSIVE XMaxSeq(_)
XMaxSeq(s) ==
    IF Len(s) = 1 THEN s[1]
    ELSE LET t == XMaxSeq(Tail(s))
         IN  IF XIsNan(s[1]) \/ XIsNan(t) THEN XNan
             ELSE IF XLt(s[1], t) THEN t ELSE s[1]

RECURSIVE XMinSeq(_)
XMinSeq(s) ==
    IF Len(s) = 1 THEN s[1]
    ELSE LET t == XMinSeq(Tail(s))
         IN  IF XIsNan(s[1]) \/ XIsNan(t) THEN XNan
             ELSE IF XLt(t, s[1]) THEN t ELSE s[1]

\* np.dot of two vectors
VDot(a, b) == XSum(Arr([i \in 1..Len(a) |-> XMul(a[i], b[i])]))

\* a + c * b for a scalar c
VAxpy(a, c, b) == Arr([i \in 1..Len(a) |-> XAdd(a[i], XMul(c, b[i]))])

VNeg(a) == Arr([i \in 1..Len(a) |-> XNeg(a[i])])

\* np.convolve(a, v), mode 'full', both non-empty
Convolve(a, v) ==
    Arr([k \in 1..(Len(a) + Len(v) - 1) |->
        XSum(Arr([i \in 1..Len(a) |->
            IF k - i + 1 \in 1..Len(v) THEN XMul(a[i], v[k - i + 1])
            ELSE <<0, 1>>]))])

\* np.flipud
Flip(h) == Arr([i \in 1..Len(h) |-> h[Len(h) + 1 - i]])

\* np.transpose of a 2D array with at least one row
Transpose(a) == Arr([c \in 1..Cols(a) |-> Arr([r \in 1..Rows(a) |-> a[r][c]])])

\* _kernel(m, n)
RingKernel(m, n) ==
    << << <<FInt(1), FInt(0 - 1)>>,
          <<Frac(0 - 3, 2), FInt(2), Frac(0 - 1, 2)>>,
          <<Frac(0 - 11, 6), FInt(3), Frac(0 - 3, 2), Frac(1, 3)>> >>,
       << <<FInt(0 - 1), FInt(2), FInt(0 - 1)>>,
          <<FInt(2), FInt(0 - 5), FInt(4), FInt(0 - 1)>> >>,
       << <<FInt(0 - 1), FInt(3), FInt(0 - 3), FInt(1)>> >> >>[m][n]

\* _ringMatXvec raises: u = s[np.size(h) - 1:np.size(x)] is empty and
\* np.convolve refuses an empty array
RingMatXvecRaises(h, x) == Len(x) < Len(h)

\* _ringMatXvec(h, x)
RingMatXvec(h, x) ==
    Bind(Convolve(x, Flip(h)), LAMBDA s :
        Convolve(SubSeq(s, Len(h), Len(x)), h))

\* the iteration cap of _ringCGM
CgCap == 1000000

\* the reciprocal of the tolerance 0.0000001 of _ringCGM
CgTol == 10000000

\* a wrong test: the residual norm is not below 1e-7
CgAboveTol(r) ==
    LET q == VDot(r, r)
    IN  ~(q[2] > 0 /\ q[1] <= ((q[2] - 1) \div CgTol) \div CgTol)

\* np.linalg.norm(r) < 0.0000001: n / d < 1 / CgTol ^ 2, an infinite or nan
\* norm is not below the tolerance
CgConverged(r) ==
    LET q == VDot(r, r)
    IN  q[2] > 0 /\ q[1] <= ((q[2] - 1) \div CgTol) \div CgTol

\* one pass through the loop body of _ringCGM, lines 458-465
CgBody(h, alpha, st) ==
    Bind(VAxpy(st.r, XNeg(st.a), st.z), LAMBDA r :
        IF CgConverged(r)
        THEN [st EXCEPT !.r = r, !.stop = TRUE]
        ELSE Bind(XDiv(VDot(r, st.z), VDot(st.w, st.z)), LAMBDA B :
             Bind(VAxpy(VNeg(r), B, st.w), LAMBDA w :
             Bind(VAxpy(RingMatXvec(h, w), alpha, w), LAMBDA z :
             Bind(XDiv(VDot(r, w), VDot(w, z)), LAMBDA a :
                 [r |-> r, w |-> w, z |-> z, a |-> a,
                  x |-> VAxpy(st.x, a, w), stop |-> FALSE])))))

\* the loop of _ringCGM from iteration i on: it ends at the break or at the
\* cap; once a pass leaves every variable as it was, so does every later one
\* up to the cap.  The result is the x returned, the passes made, whether
\* the loop ended at the break, and the residuals rs the passes computed.
RECURSIVE CgLoop(_, _, _, _, _)
CgLoop(h, alpha, st, i, seen) ==
    IF i = CgCap
    THEN [x |-> st.x, passes |-> i, broke |-> FALSE, rs |-> seen]
    ELSE Bind(CgBody(h, alpha, st), LAMBDA nx :
             IF nx.stop
             THEN [x |-> nx.x, passes |-> i + 1, broke |-> TRUE,
                   rs |-> Append(seen, nx.r)]
             ELSE IF nx = st
             THEN [x |-> st.x, passes |-> CgCap, broke |-> FALSE,
                   rs |-> Append(seen, nx.r)]
             ELSE Bind(Append(seen, nx.r), LAMBDA sn :
                      CgLoop(h, alpha, nx, i + 1, sn)))

\* one call _ringCGM(h, alpha, f), lines 450-466
CgRun(h, alpha, f) ==
    Bind(Arr([i \in 1..Len(f) |-> <<0, 1>>]), LAMBDA x0 :
    Bind(VAxpy(f, <<0 - 1, 1>>, VAxpy(RingMatXvec(h, x0), alpha, x0)), LAMBDA r :
    Bind(VNeg(r), LAMBDA w :
    Bind(VAxpy(RingMatXvec(h, w), alpha, w), LAMBDA z :
    Bind(XDiv(VDot(r, w), VDot(w, z)), LAMBDA a :
    Bind([r |-> r, w |-> w, z |-> z, a |-> a,
          x |-> VAxpy(x0, a, w), stop |-> FALSE], LAMBDA st :
        CgLoop(h, alpha, st, 0, <<>>)))))))

\* _ringCGM(h, alpha, f): the x it returns
RingCGM(h, alpha, f) == CgRun(h, alpha, f).x

\* np.isnan(mysino) is True: an array is not the object True
IsNanIsTrue(a) == FALSE

\* pos = np.where(np.isnan(mysino) is True); mysino[pos] = 0
RingRemoveNan(a) ==
    Arr([r \in 1..Rows(a) |->
        Arr([c \in 1..Cols(a) |->
            IF IsNanIsTrue(a) /\ XIsNan(a[r][c]) THEN <<0, 1>> ELSE a[r][c]])])

\* a.sum(0) and a.mean(1) of a 2D array
SumAxis0(a) ==
    Arr([c \in 1..Cols(a) |-> XSum(Arr([r \in 1..Rows(a) |-> a[r][c]]))])

MeanAxis1(a) == Arr([r \in 1..Rows(a) |-> XDiv(XSum(a[r]), FInt(Cols(a)))])

\* alpha = 1 / (2 * (a.sum(0).max() - a.sum(0).min()))
RingAlpha(a) ==
    XDiv(FInt(1),
         XMul(FInt(2), XSub(XMaxSeq(SumAxis0(a)), XMinSeq(SumAxis0(a)))))

\* the arguments <<h, alpha, f>> of the _ringCGM call for a (transposed)
\* block, lines 479-484 and 512-515
RingSystem(a, h) == <<h, RingAlpha(a), VNeg(RingMatXvec(h, MeanAxis1(a)))>>

\* the correction q of a (transposed) block, lines 485 and 516
RingCorrection(a, h) ==
    Bind(RingSystem(a, h), LAMBDA sy : RingCGM(sy[1], sy[2], sy[3]))

\* np.add(a, np.kron(q, np.ones((1, N))))
RingAddColumn(a, q) ==
    Arr([r \in 1..Rows(a) |-> Arr([c \in 1..Cols(a) |-> XAdd(a[r][c], q[r])])])

\* _ring(sino, m, n)
Ring(sino, m, n) ==
    Bind(RingRemoveNan(Transpose(sino)), LAMBDA mysino :
        Transpose(RingAddColumn(mysino, RingCorrection(mysino, RingKernel(m, n)))))

\* columns first .. last of a 2D array
ColumnBlock(a, first, last) ==
    Arr([r \in 1..Rows(a) |-> SubSeq(a[r], first, last)])

\* _ringb raises: int(N / step) with step = 0
RingbRaises(step) == step = 0

\* _ringb(sino, m, n, step), step > 0: the blocks k * step .. (k + 1) * step
\* of the transposed sinogram are corrected one by one into new, which
\* starts as np.ones((R, N))
Ringb(sino, m, n, step) ==
    Bind(RingRemoveNan(Transpose(sino)), LAMBDA mysino :
    Bind(Arr([k \in 1..(Cols(mysino) \div step) |->
             Bind(ColumnBlock(mysino, (k - 1) * step + 1, k * step), LAMBDA block :
                 RingAddColumn(block, RingCorrection(block, RingKernel(m, n))))]),
         LAMBDA done :
        Transpose(Arr([r \in 1..Rows(mysino) |->
                      Arr([c \in 1..Cols(mysino) |->
                          IF (c - 1) \div step < Cols(mysino) \div step
                          THEN done[((c - 1) \div step) + 1][r][((c - 1) % step) + 1]
                          ELSE FInt(1)])]))))

\* the minimum of a 2D array
MatMin(a) == XMinSeq(Arr([r \in 1..Rows(a) |-> XMinSeq(a[r])]))

\* p + alpha * np.abs(p.min()) for p = d1 * d2: the operand of np.sqrt
StripeOperand(d1, d2, alpha) ==
    Bind(Arr([r \in 1..Rows(d1) |->
             Arr([c \in 1..Cols(d1) |-> XMul(d1[r][c], d2[r][c])])]), LAMBDA p :
    Bind(XMul(alpha, XAbs(MatMin(p))), LAMBDA floor :
        Arr([r \in 1..Rows(p) |-> Arr([c \in 1..Cols(p) |-> XAdd(p[r][c], floor)])])))

\* a worker call on this sinogram raises: a kernel longer than the detector
\* row, or a block size of zero
Stripe2Raises(sino, nblock) ==
    \/ Cols(sino) < Len(RingKernel(2, 1))
    \/ nblock # 0 /\ RingbRaises(Rows(sino) \div nblock)

\* _remove_stripe2, lines 417-428, for one sinogram
Stripe2Slice(sino, nblock, alpha) ==
    IF nblock = 0
    THEN StripeOperand(Ring(sino, 1, 1), Ring(sino, 2, 1), alpha)
    ELSE StripeOperand(Ringb(sino, 1, 1, Rows(sino) \div nblock),
                       Ringb(sino, 2, 1, Rows(sino) \div nblock), alpha)

\* the pixels of a volume in the remove_stripe2 runs
RingPixels == 6

\* the largest pixel value in the remove_stripe2 runs
RingMax == 1

\* the sinograms of a volume in the remove_stripe2 runs
RingDy == 2

\* the finite pixel values of the remove_stripe2 runs
RingVals == {FInt(v) : v \in 0..RingMax}

\* the pixels <<m, r, c>> of a volume that hold nan: none, or the first
\* pixel of a volume of one sinogram
RingNans(dx, dy, dz) == IF dy = 1 THEN {{}, {<<0, 1, 1>>}} ELSE {{}}

RingDxs == {1, 2}

RingDzs == {2, 3}

RingBlocks == {0, 1, 2}

RingDampings == {<<3, 2>>, <<1, 2>>}

\* the <<nblock, alpha>> of the calls: every block count with the default
\* damping 1.5, the other dampings without blocks
RingCalls ==
    {c \in RingBlocks \X RingDampings : c[1] = 0 \/ c[2] = <<3, 2>>}

InitStripe2 ==
    /\ op = "remove_stripe2"
    /\ \E dx \in RingDxs, dy \in 1..RingDy, dz \in RingDzs :
        /\ dx * dy * dz <= RingPixels
        /\ shape = <<dx, dy, dz>>
        /\ \E vol \in [0..(dy - 1) -> Mats(dx, dz, RingVals)],
              nans \in RingNans(dx, dy, dz) :
              tomo = [m \in 0..(dy - 1) |->
                         [root |-> FALSE,
                          val |-> [r \in 1..dx |-> [c \in 1..dz |->
                                      IF <<m, r, c>> \in nans THEN XNan
                                      ELSE vol[m][r][c]]]]]
    /\ tomo0 = tomo
    /\ \E call \in RingCalls :
            inp = [nblock |-> call[1], alpha |-> call[2],
                   ncore |-> <<>>, nchunk |-> <<>>]
    /\ args = <<>>
    /\ phase = "called"
    /\ ranges = <<>>
    /\ pc = <<>>
    /\ idx = <<>>
    /\ loc = <<>>
    /\ acc = {}

\* remove_stripe2: distribute_jobs along axis 1
RemoveStripe2 ==
    /\ op = "remove_stripe2"
    /\ phase = "called"
    /\ Distribute(shape[2], [nblock |-> inp.nblock, alpha |-> inp.alpha])
    /\ UNCHANGED <<op, shape, tomo0, tomo, inp, acc>>

\* _remove_stripe2 has no statement before its loop
Stripe2Start(w) ==
    /\ op = "remove_stripe2"
    /\ phase = "running"
    /\ pc[w] = "start"
    /\ Enter(w)
    /\ UNCHANGED <<op, shape, tomo0, tomo, inp, args, phase, ranges, idx, loc, acc>>

\* _remove_stripe2, lines 417-428: d from the sinogram tomo[:, m, :]
Stripe2Load(w) ==
    /\ op = "remove_stripe2"
    /\ phase = "running"
    /\ pc[w] = "load"
    /\ acc' = acc \cup {<<w, "r", idx[w]>>}
    /\ IF Stripe2Raises(tomo[idx[w]].val, args.nblock)
       THEN /\ pc' = [pc EXCEPT ![w] = "failed"]
            /\ loc' = loc
       ELSE /\ loc' = [loc EXCEPT ![w] =
                          [mysino |-> RingRemoveNan(Transpose(tomo[idx[w]].val)),
                           d |-> [root |-> TRUE,
                                  val |-> Stripe2Slice(tomo[idx[w]].val,
                                                       args.nblock, args.alpha)]]]
            /\ pc' = [pc EXCEPT ![w] = "store"]
    /\ UNCHANGED <<op, shape, tomo0, tomo, inp, args, phase, ranges, idx>>

\* _remove_stripe2, line 429: tomo[:, m, :] = d
Stripe2Store(w) ==
    /\ op = "remove_stripe2"
    /\ phase = "running"
    /\ pc[w] = "store"
    /\ tomo' = [tomo EXCEPT ![idx[w]] = loc[w].d]
    /\ acc' = acc \cup {<<w, "w", idx[w]>>}
    /\ Advance(w)
    /\ UNCHANGED <<op, shape, tomo0, inp, args, phase, ranges, loc>>

NextStripe2 ==
    \/ RemoveStripe2
    \/ \E w \in Workers : Stripe2Start(w)
    \/ \E w \in Workers : Stripe2Load(w)
    \/ \E w \in Workers : Stripe2Store(w)
    \/ Collect
    \/ CollectFailure

SpecStripe2 == InitStripe2 /\ [][NextStripe2]_vars

(***************************************************************************)
(* Properties of normalize.                                                *)
(***************************************************************************)
\* slice m has been written by a worker call
Written(m) == \E w \in Workers : <<w, "w", m>> \in acc

\* the sum over the leading axis of a reference stack at pixel (r, c)
StackSum(stack, r, c) == SeqSum([k \in 1..Len(stack) |-> stack[k][r][c]])

\* flat[r, c] - dark[r, c] of the mean fields, times the two frame counts
DiffNum(r, c) ==
    StackSum(inp.flat, r, c) * Len(inp.dark)
        - StackSum(inp.dark, r, c) * Len(inp.flat)

\* den[r, c] as numerator and denominator
DenNum(r, c) == IF DiffNum(r, c) # 0 THEN DiffNum(r, c) ELSE 1

DenDen(r, c) ==
    IF DiffNum(r, c) # 0 THEN Len(inp.flat) * Len(inp.dark) ELSE 1000000

\* (tomo[m, r, c] - dark[r, c]) / den[r, c] as numerator and denominator
RatioNum(m, r, c) ==
    (tomo0[m][r][c][1] * Len(inp.dark)
        - StackSum(inp.dark, r, c) * tomo0[m][r][c][2]) * DenDen(r, c)

RatioDen(m, r, c) == tomo0[m][r][c][2] * Len(inp.dark) * DenNum(r, c)

\* the fraction v is the ratio of pixel (m, r, c)
IsRatio(v, m, r, c) == v[1] * RatioDen(m, r, c) = RatioNum(m, r, c) * v[2]

\* the ratio of pixel (m, r, c) exceeds the fraction q
RatioAbove(q, m, r, c) ==
    IF RatioDen(m, r, c) > 0
    THEN RatioNum(m, r, c) * q[2] > q[1] * RatioDen(m, r, c)
    ELSE RatioNum(m, r, c) * q[2] < q[1] * RatioDen(m, r, c)

Pixels(a) == {<<r, c>> : r \in 1..Rows(a), c \in 1..Cols(a)}

\* C5: no worker divides by zero, and without a cutoff every written pixel is
\* (tomo - dark) / den with den = flat - dark of the mean fields, or 1e-6 where
\* that difference is zero; an unwritten pixel still holds its raw value.
NormalizeFormula ==
    op = "normalize" =>
        /\ \A w \in Workers :
              loc[w] # <<>> =>
                \A p \in Pixels(loc[w].denom) : loc[w].denom[p[1]][p[2]][1] # 0
        /\ inp.cutoff = <<>> =>
              \A m \in DOMAIN tomo : \A p \in Pixels(tomo[m]) :
                  IF Written(m)
                  THEN IsRatio(tomo[m][p[1]][p[2]], m, p[1], p[2])
                  ELSE tomo[m][p[1]][p[2]] = tomo0[m][p[1]][p[2]]

\* C5 witness: a finished run without cutoff that produced the value 0.5
\* (2 over flat 4, dark 0) and a value divided by the epsilon (1 / 1e-6)
NormalizeFormulaWitness ==
    /\ op = "normalize"
    /\ phase = "done"
    /\ inp.cutoff = <<>>
    /\ \E m \in DOMAIN tomo : \E p \in Pixels(tomo[m]) :
          /\ tomo[m][p[1]][p[2]] = <<1, 2>>
          /\ tomo0[m][p[1]][p[2]] = <<2, 1>>
    /\ \E m \in DOMAIN tomo : \E p \in Pixels(tomo[m]) :
          /\ tomo[m][p[1]][p[2]] = <<1000000, 1>>
          /\ DiffNum(p[1], p[2]) = 0

\* flat = dark + 1 and tomo = dark + c at every pixel
RoundTripInput(c) ==
    /\ \A m \in DOMAIN tomo0 : \A p \in Pixels(tomo0[m]) :
          /\ Len(inp.dark) = 1
          /\ \A k \in DOMAIN inp.flat :
                inp.flat[k][p[1]][p[2]] = inp.dark[1][p[1]][p[2]] + 1
          /\ tomo0[m][p[1]][p[2]] = FInt(inp.dark[1][p[1]][p[2]] + c)

\* C6: with a cutoff every written pixel is min(ratio, cutoff), so a value
\* below zero stays; without a cutoff it is the ratio; with flat = dark + 1 and
\* tomo = dark + c the finished volume is c, or the cutoff when cutoff < c.
NormalizeCutoff ==
    op = "normalize" =>
        /\ \A m \in DOMAIN tomo : \A p \in Pixels(tomo[m]) :
              Written(m) =>
                IF inp.cutoff # <<>> /\ RatioAbove(inp.cutoff[1], m, p[1], p[2])
                THEN tomo[m][p[1]][p[2]] = inp.cutoff[1]
                ELSE IsRatio(tomo[m][p[1]][p[2]], m, p[1], p[2])
        /\ \A c \in 0..2 :
              (phase = "done" /\ RoundTripInput(c)) =>
                \A m \in DOMAIN tomo : \A p \in Pixels(tomo[m]) :
                    tomo[m][p[1]][p[2]] =
                        IF inp.cutoff # <<>> /\ inp.cutoff[1][1] < c * inp.cutoff[1][2]
                        THEN inp.cutoff[1]
                        ELSE FInt(c)

\* C6 witness: a finished run with a cutoff in which one pixel was clamped to
\* the cutoff and another kept its negative value
NormalizeCutoffWitness ==
    /\ op = "normalize"
    /\ phase = "done"
    /\ inp.cutoff # <<>>
    /\ \E m \in DOMAIN tomo : \E p \in Pixels(tomo[m]) :
          /\ RatioAbove(inp.cutoff[1], m, p[1], p[2])
          /\ tomo[m][p[1]][p[2]] = inp.cutoff[1]
    /\ \E m \in DOMAIN tomo : \E p \in Pixels(tomo[m]) :
          tomo[m][p[1]][p[2]][1] < 0

\* the flat or the dark frames do not have the columns of the projections
FramesMismatch ==
    \/ \E k \in DOMAIN inp.flat : Cols(inp.flat[k]) # shape[3]
    \/ \E k \in DOMAIN inp.dark : Cols(inp.dark[k]) # shape[3]

\* C12: with flat or dark frames that do not fit the projections, normalize
\* raises before any chunk is handed to a worker, and the volume is still the
\* raw one when the error reaches the caller
NormalizeFailFast ==
    (op = "normalize" /\ FramesMismatch) =>
        /\ phase # "running"
        /\ phase = "failed" => tomo = tomo0

(***************************************************************************)
(* Properties of remove_zinger.                                            *)
(***************************************************************************)
\* the volume the running pass of remove_zinger was called with
ZingerBefore == IF inp.pass = 1 THEN tomo0 ELSE inp.first

\* the index an out-of-range neighbour stands for (one step past the border)
Mirror(i, n) == IF i < 0 THEN 0 ELSE IF i >= n THEN n - 1 ELSE i

\* s with v inserted before its first greater element (s sorted)
RECURSIVE Insert(_, _)
Insert(v, s) ==
    IF s = <<>> THEN <<v>>
    ELSE IF v <= Head(s) THEN <<v>> \o s
    ELSE <<Head(s)>> \o Insert(v, Tail(s))

RECURSIVE Sorted(_)
Sorted(s) == IF s = <<>> THEN <<>> ELSE Insert(Head(s), Sorted(Tail(s)))

\* the median of the 3 x 3 neighbourhood of pixel (r, c) of a (1-based)
Med3(a, r, c) ==
    Sorted([k \in 1..9 |->
        a[Mirror(r - 2 + ((k - 1) \div 3), Rows(a)) + 1]
         [Mirror(c - 2 + ((k - 1) % 3), Cols(a)) + 1]])[5]

\* C7: when a pass of remove_zinger (window 3) has finished, every pixel is
\* the median of its neighbourhood in the same projection before the pass if
\* raw - median >= dif, and its raw value otherwise.
ZingerPixelRule ==
    (op = "remove_zinger" /\ phase = "done" /\ inp.size = 3) =>
        \A m \in DOMAIN tomo : \A p \in Pixels(tomo[m]) :
            LET raw == ZingerBefore[m][p[1]][p[2]]
                med == Med3(ZingerBefore[m], p[1], p[2])
            IN  tomo[m][p[1]][p[2]] = IF raw - med >= inp.dif THEN med ELSE raw

\* C7 witness: a finished pass that replaced a pixel exceeding its median by
\* exactly dif and left another pixel, above its median by less, unchanged
ZingerPixelRuleWitness ==
    /\ op = "remove_zinger"
    /\ phase = "done"
    /\ \E m \in DOMAIN tomo : \E p \in Pixels(tomo[m]) :
          /\ ZingerBefore[m][p[1]][p[2]] - Med3(ZingerBefore[m], p[1], p[2]) = inp.dif
          /\ tomo[m][p[1]][p[2]] = Med3(ZingerBefore[m], p[1], p[2])
    /\ \E m \in DOMAIN tomo : \E p \in Pixels(tomo[m]) :
          /\ ZingerBefore[m][p[1]][p[2]] > Med3(ZingerBefore[m], p[1], p[2])
          /\ tomo[m][p[1]][p[2]] = ZingerBefore[m][p[1]][p[2]]

\* C8 as claimed: a second pass with the same parameters changes nothing.
ZingerIdempotent ==
    (op = "remove_zinger" /\ phase = "done" /\ inp.pass = 2) => tomo = inp.first

\* C8 as amended: for dif >= 0 a second pass never raises a pixel: twice <=
\* once <= input at every pixel, and the second pass changes exactly the pixels
\* that exceed the median of their neighbourhood in the first result by dif.
ZingerSecondPassLowers ==
    (op = "remove_zinger" /\ phase = "done" /\ inp.pass = 2 /\ inp.dif >= 0) =>
        \A m \in DOMAIN tomo : \A p \in Pixels(tomo[m]) :
            /\ tomo[m][p[1]][p[2]] <= inp.first[m][p[1]][p[2]]
            /\ inp.first[m][p[1]][p[2]] <= tomo0[m][p[1]][p[2]]
            /\ (tomo[m][p[1]][p[2]] # inp.first[m][p[1]][p[2]]) <=>
                 (/\ inp.first[m][p[1]][p[2]] - Med3(inp.first[m], p[1], p[2])
                        >= inp.dif
                  /\ inp.first[m][p[1]][p[2]] # Med3(inp.first[m], p[1], p[2]))

\* C8 witness: a second pass that changed a pixel the first pass had left
ZingerSecondPassWitness ==
    /\ op = "remove_zinger"
    /\ phase = "done"
    /\ inp.pass = 2
    /\ \E m \in DOMAIN tomo : \E p \in Pixels(tomo[m]) :
          /\ inp.first[m][p[1]][p[2]] = tomo0[m][p[1]][p[2]]
          /\ tomo[m][p[1]][p[2]] < inp.first[m][p[1]][p[2]]

(***************************************************************************)
(* The five corrections together.                                          *)
(***************************************************************************)
Init ==
    \/ InitNormalize
    \/ InitZinger
    \/ InitPhase
    \/ InitStripe1
    \/ InitStripe2

Next ==
    \/ NextNormalize
    \/ NextZinger
    \/ NextPhase
    \/ NextStripe1
    \/ NextStripe2

Spec == Init /\ [][Next]_vars

(***************************************************************************)
(* Properties of the distribution.                                         *)
(***************************************************************************)
\* the extent of the distribution axis: axis 1 for the stripe removers,
\* axis 0 for the others
AxisExtent ==
    IF op \in {"remove_stripe1", "remove_stripe2"} THEN shape[2] ELSE shape[1]

\* C2: the ranges handed to the worker function are non-empty, contiguous,
\* pairwise disjoint, start at 0 and end at the axis extent N, for every
\* request of a core count and a chunk size
RangePartition ==
    phase = "running" =>
        /\ Len(ranges) >= 1
        /\ ranges[1][1] = 0
        /\ ranges[Len(ranges)][2] = AxisExtent
        /\ \A i \in 1..Len(ranges) : ranges[i][1] < ranges[i][2]
        /\ \A i \in 1..(Len(ranges) - 1) : ranges[i][2] = ranges[i + 1][1]
        /\ \A i, j \in 1..Len(ranges) :
              i # j => (ranges[i][1]..(ranges[i][2] - 1))
                          \cap (ranges[j][1]..(ranges[j][2] - 1)) = {}

\* a chunk size that does not divide the extent has been handed out
RangePartitionWitness ==
    /\ phase = "running"
    /\ inp.nchunk = <<2>>
    /\ AxisExtent = 3
    /\ Len(ranges) = 2

\* C3: every volume access of a worker lies in its own range, and no slice
\* is accessed by two workers
WorkerDisjoint ==
    /\ \A a \in acc : a[3] \in ranges[a[1]][1]..(ranges[a[1]][2] - 1)
    /\ \A a, b \in acc : a[1] # b[1] => a[3] # b[3]

\* two workers are both between a read and a write of their slices
WorkerDisjointWitness ==
    /\ phase = "running"
    /\ \E v, w \in Workers :
        /\ v # w
        /\ pc[v] = "store"
        /\ pc[w] = "store"
        /\ \E a, b \in acc : a[1] = v /\ b[1] = w /\ b[2] = "w"

(***************************************************************************)
(* Properties of remove_stripe1.                                           *)
(***************************************************************************)
\* the loop of _remove_stripe1 from slice m on, in one worker call over the
\* whole axis; <<"raised">> when a copy into sli raises
RECURSIVE Stripe1Loop(_, _, _)
Stripe1Loop(vol, sli, m) ==
    IF m = shape[2] THEN vol
    ELSE IF ~StripeFits(sli, shape[1], shape[3]) THEN <<"raised">>
    ELSE LET out == StripeFilter(StripeEmbed(sli, vol[m], shape[1]),
                                 args.flen, args.level)
         IN  Stripe1Loop([vol EXCEPT ![m] = StripeCrop(out)], out, m + 1)

\* the volume after _remove_stripe1(level, wname, sigma, pad, 0, dy)
Stripe1Single ==
    Stripe1Loop(tomo0, StripeZeros(shape[1], shape[3], args.pad), 0)

\* C1: the finished volume is the one a single worker call over the whole
\* axis produces, whatever the partition into ranges
ChunkInvariant ==
    (op = "remove_stripe1" /\ phase = "done" /\ Stripe1Single # <<"raised">>)
        => tomo = Stripe1Single

\* C4: no worker call fails on the extents of a buffer and a slice
NoShapeFailure ==
    op = "remove_stripe1" => \A w \in Workers : pc[w] # "failed"

\* C13: with pad, the buffer every slice of a worker's range is copied into
\* has the extents allocated before the loop, and the buffer that was
\* decomposed held zeros in its padding rows, nothing of an earlier slice
PaddingZeroed ==
    (op = "remove_stripe1" /\ inp.pad) =>
        \A w \in Workers :
            /\ pc[w] = "load" =>
                  /\ loc[w].sli.rows = StripeNx(shape[1], TRUE)
                  /\ loc[w].sli.cols = shape[3]
            /\ pc[w] = "store" =>
                  loc[w].sli.body[2][3] \in {<<"zeros">>, <<"none">>}

\* C19: in every vertical-detail band a worker damps, y_hat is 0 in the row
\* of fcV that holds the zero-frequency bin, and rows that hold the bins +k
\* and -k have y_hat of equal magnitude
DampingCentred ==
    op = "remove_stripe1" =>
        \A w \in Workers :
            (pc[w] = "store" /\ idx[w] = ranges[w][1]) =>
                LET bands == BandLens(StripeNx(shape[1], args.pad),
                                      args.flen, args.level)
                IN  \A n \in DOMAIN bands :
                        \A i, j \in 1..bands[n] :
                            /\ StripeBins(bands[n])[i] = 0
                                  => StripeYHat(bands[n])[i] = 0
                            /\ StripeBins(bands[n])[i] + StripeBins(bands[n])[j] = 0
                                  => Abs(StripeYHat(bands[n])[i])
                                         = Abs(StripeYHat(bands[n])[j])

(***************************************************************************)
(* Properties of retrieve_phase.                                           *)
(***************************************************************************)
\* the values of an array of numbers
Values(a) == {a[i] : i \in 1..Len(a)}

\* C9: the sampling grid holds the zero frequency, the filter is 1 / alpha
\* there and nowhere larger, and it is positive
PaganinZeroFrequency ==
    (op = "retrieve_phase" /\ phase = "running") =>
        /\ 0 \in Values(HalfIndex(Rows(args.H)))
        /\ 0 \in Values(HalfIndex(Cols(args.H)))
        /\ \E p \in Pixels(args.H) :
              args.H[p[1]][p[2]] = Frac(inp.alpha[2], inp.alpha[1])
        /\ \A p \in Pixels(args.H) :
              /\ args.H[p[1]][p[2]][1] > 0
              /\ ~FGt(args.H[p[1]][p[2]], Frac(inp.alpha[2], inp.alpha[1]))

\* C17: after the shift the filter is maximal at its first sample, the
\* place of the zero frequency of an unshifted 2D FFT: no sample of H
\* exceeds H[0, 0]
PaganinOrigin ==
    (op = "retrieve_phase" /\ phase = "running") =>
        \A p \in Pixels(args.H) : ~FGt(args.H[p[1]][p[2]], args.H[1][1])

\* n is a power of two
RECURSIVE IsPow2(_)
IsPow2(n) == n = 1 \/ (n > 1 /\ n % 2 = 0 /\ IsPow2(n \div 2))

\* n is the smallest power of two >= d
SmallestPow2(n, d) == IsPow2(n) /\ n >= d /\ (n = 1 \/ n \div 2 < d)

\* C18: with pad, the buffer extents are the smallest powers of two
\* >= dy + padpix and dz + padpix, the window of the projection lies inside
\* the buffer, the result is cropped with the window the projection was
\* embedded with, and for every projection of a worker the buffer holds that
\* projection inside the window and the pad value outside
PaddingGeometry ==
    (op = "retrieve_phase" /\ inp.pad /\ phase = "running") =>
        /\ SmallestPow2(args.prj.rows, shape[2] + PadPix(inp.coef))
        /\ SmallestPow2(args.prj.cols, shape[3] + PadPix(inp.coef))
        /\ Rows(args.H) = args.prj.rows
        /\ Cols(args.H) = args.prj.cols
        /\ args.xshift[1] >= 0
        /\ args.xshift[1] + shape[2] <= args.prj.rows
        /\ args.yshift[1] >= 0
        /\ args.yshift[1] + shape[3] <= args.prj.cols
        /\ \A w \in Workers :
              /\ pc[w] \in {"load", "store"} =>
                    /\ loc[w].prj.rows = args.prj.rows
                    /\ loc[w].prj.cols = args.prj.cols
                    /\ loc[w].prj.outside = "val"
              /\ pc[w] = "store" =>
                    /\ loc[w].prj.inside = tomo[idx[w]]
                    /\ loc[w].crop = loc[w].embed
                    /\ loc[w].embed[1].rows
                          = <<args.xshift[1], args.xshift[1] + shape[2]>>
                    /\ loc[w].embed[1].cols
                          = <<args.yshift[1], args.yshift[1] + shape[3]>>

\* C18 witness: a padded run in which a worker holds the result of the
\* second projection of its range, the window strictly inside the buffer
PaddingGeometryWitness ==
    /\ op = "retrieve_phase"
    /\ inp.pad
    /\ phase = "running"
    /\ \E w \in Workers :
          /\ pc[w] = "store"
          /\ idx[w] > ranges[w][1]
          /\ args.xshift[1] > 0
          /\ args.xshift[1] + shape[2] < args.prj.rows
          /\ loc[w].prj.outside = "val"

(***************************************************************************)
(* Properties of remove_stripe2.                                           *)
(***************************************************************************)
\* every column of the sinogram holds one value
ConstantColumns(sino) ==
    \A p \in Pixels(sino) : sino[p[1]][p[2]] = sino[1][p[2]]

\* C11: once a worker is past the "Remove NaN" step of _ring / _ringb, the
\* sinogram it computes the statistics and the profile from holds no nan
NanZeroed ==
    op = "remove_stripe2" =>
        \A w \in Workers :
            pc[w] = "store" =>
                \A p \in Pixels(loc[w].mysino) : ~XIsNan(loc[w].mysino[p[1]][p[2]])

\* C14: with nblock >= 1 no worker call uses a block size of 0, and the
\* blocks of size step = dx \div nblock that _ringb corrects cover every
\* projection row of the sinogram
BlockCoverage ==
    (op = "remove_stripe2" /\ inp.nblock >= 1) =>
        \A w \in Workers :
            pc[w] \in {"store", "failed"} =>
                /\ ~RingbRaises(shape[1] \div args.nblock)
                /\ \A c \in 1..shape[1] :
                      (c - 1) \div (shape[1] \div args.nblock)
                          < shape[1] \div (shape[1] \div args.nblock)

\* C15: every element of the operand p + alpha * |min(p)| a worker hands to
\* np.sqrt is >= 0 (not negative and not nan)
OperandNonNegative ==
    op = "remove_stripe2" =>
        \A w \in Workers :
            pc[w] = "store" =>
                \A p \in Pixels(loc[w].d.val) :
                    /\ ~XIsNan(loc[w].d.val[p[1]][p[2]])
                    /\ ~XLt(loc[w].d.val[p[1]][p[2]], <<0, 1>>)

\* the squared norm of r is finite and below 1e-14
ResidualBelow(r) ==
    /\ VDot(r, r)[2] > 0
    /\ VDot(r, r)[1] <= ((VDot(r, r)[2] - 1) \div CgTol) \div CgTol

\* the _ringCGM calls a worker makes for the (transposed) sinogram a
CgRuns(a, nblock) ==
    LET step == IF nblock = 0 THEN Cols(a) ELSE Cols(a) \div nblock
        blocks == {ColumnBlock(a, (k - 1) * step + 1, k * step) :
                      k \in 1..(Cols(a) \div step)}
        systems == {RingSystem(blk, RingKernel(m, 1)) :
                       blk \in blocks, m \in {1, 2}}
    IN  {[f |-> sy[3], run |-> CgRun(sy[1], sy[2], sy[3])] : sy \in systems}

\* C16: every _ringCGM call returns an iterate of the size of f after at
\* most CgCap passes; it leaves the loop at the first pass whose residual
\* norm is below 1e-7, and without such a pass it makes all CgCap passes
CgTerminates ==
    op = "remove_stripe2" =>
        \A w \in Workers :
            pc[w] = "store" =>
                \A c \in CgRuns(loc[w].mysino, args.nblock) :
                    /\ c.run.passes \in 1..CgCap
                    /\ Len(c.run.x) = Len(c.f)
                    /\ \A i \in 1..(Len(c.run.rs) - 1) : ~ResidualBelow(c.run.rs[i])
                    /\ IF c.run.broke
                       THEN /\ c.run.passes = Len(c.run.rs)
                            /\ ResidualBelow(c.run.rs[Len(c.run.rs)])
                       ELSE /\ c.run.passes = CgCap
                            /\ ~ResidualBelow(c.run.rs[Len(c.run.rs)])

\* C16 witness: a worker holds its result after a call that left the loop
\* at the break in its second pass or later, with a finite iterate
CgTerminatesWitness ==
    /\ op = "remove_stripe2"
    /\ \E w \in Workers :
          /\ pc[w] = "store"
          /\ \E c \in CgRuns(loc[w].mysino, args.nblock) :
                /\ c.run.broke
                /\ c.run.passes >= 2
                /\ c.run.passes < CgCap
                /\ \A i \in 1..Len(c.run.x) : c.run.x[i][2] > 0

\* C10: a sinogram with constant columns is written back as it was: the
\* operand of the square root is the square of the input, pixel by pixel
RingStationary ==
    (op = "remove_stripe2" /\ phase = "done" /\ inp.nblock = 0) =>
        \A m \in DOMAIN tomo :
            ConstantColumns(tomo0[m].val) =>
                /\ tomo[m].root
                /\ \A p \in Pixels(tomo0[m].val) :
                      tomo[m].val[p[1]][p[2]]
                          = XMul(tomo0[m].val[p[1]][p[2]], tomo0[m].val[p[1]][p[2]])

====
